---- MODULE Spec2Model ----
(***************************************************************************)
(* TriPlan (src/app.py): the trip expense splitter.                        *)
(*                                                                         *)
(* even_split_expenses and the breakdown that main() builds work on Python *)
(* floats (IEEE-754 binary64) and round the amount owed with               *)
(* Decimal(amount).quantize(Decimal("0.01"), ROUND_HALF_UP).  The model    *)
(* keeps that arithmetic: a float is a sign, a 53-bit mantissa and an      *)
(* exponent, every operation is computed exactly and then rounded to the   *)
(* nearest float, ties to even, as the hardware does.  Mantissas do not    *)
(* fit TLC's 32-bit integers, so natural numbers are sequences of 15-bit   *)
(* limbs, least significant first.  Overflow to infinity, subnormal        *)
(* numbers, NaN and the sign of zero are outside the model: the amounts    *)
(* the model draws stay far from those ranges, and -0.0 == 0.0 in Python.  *)
(***************************************************************************)
EXTENDS Integers, Sequences, FiniteSets, TLC

(***************************************************************************)
(* Natural numbers of any size: sequences of limbs in 0..LimbBase-1, least *)
(* significant limb first, no leading zero limb; <<>> is zero.             *)
(***************************************************************************)
LimbBase == 2^15

RECURSIVE BStrip(_)
BStrip(a) ==
    IF a = <<>> THEN <<>>
    ELSE IF a[Len(a)] = 0 THEN BStrip(SubSeq(a, 1, Len(a) - 1))
    ELSE a

Limb(a, i) == IF i <= Len(a) THEN a[i] ELSE 0

RECURSIVE BOfInt(_)
BOfInt(n) == IF n = 0 THEN <<>> ELSE <<n % LimbBase>> \o BOfInt(n \div LimbBase)

RECURSIVE BAddC(_, _, _, _)
BAddC(a, b, i, c) ==
    IF i > Len(a) /\ i > Len(b)
    THEN (IF c = 0 THEN <<>> ELSE <<c>>)
    ELSE LET s == Limb(a, i) + Limb(b, i) + c
         IN  <<s % LimbBase>> \o BAddC(a, b, i + 1, s \div LimbBase)

BAdd(a, b) == BAddC(a, b, 1, 0)

\* a - b for a >= b
RECURSIVE BSubC(_, _, _, _)
BSubC(a, b, i, c) ==
    IF i > Len(a) THEN <<>>
    ELSE LET s == Limb(a, i) - Limb(b, i) - c
         IN  IF s < 0 THEN <<s + LimbBase>> \o BSubC(a, b, i + 1, 1)
             ELSE <<s>> \o BSubC(a, b, i + 1, 0)

BSub(a, b) == BStrip(BSubC(a, b, 1, 0))

\* -1, 0, 1 as a < b, a = b, a > b
RECURSIVE BCmpAt(_, _, _)
BCmpAt(a, b, i) ==
    IF i = 0 THEN 0
    ELSE IF a[i] < b[i] THEN -1
    ELSE IF a[i] > b[i] THEN 1
    ELSE BCmpAt(a, b, i - 1)

BCmp(a, b) ==
    IF Len(a) < Len(b) THEN -1
    ELSE IF Len(a) > Len(b) THEN 1
    ELSE BCmpAt(a, b, Len(a))

\* a * k for 0 <= k <= LimbBase
RECURSIVE BMulSmallC(_, _, _, _)
BMulSmallC(a, k, i, c) ==
    IF i > Len(a) THEN (IF c = 0 THEN <<>> ELSE <<c>>)
    ELSE LET s == a[i] * k + c
         IN  <<s % LimbBase>> \o BMulSmallC(a, k, i + 1, s \div LimbBase)

BMulSmall(a, k) == IF k = 0 THEN <<>> ELSE BMulSmallC(a, k, 1, 0)

Zeros(n) == [i \in 1..n |-> 0]

RECURSIVE BMulAt(_, _, _)
BMulAt(a, b, i) ==
    IF i > Len(b) THEN <<>>
    ELSE BAdd(IF b[i] = 0 THEN <<>> ELSE Zeros(i - 1) \o BMulSmall(a, b[i]),
              BMulAt(a, b, i + 1))

BMul(a, b) == IF a = <<>> \/ b = <<>> THEN <<>> ELSE BMulAt(a, b, 1)

\* quotient and remainder of a by d, 0 < d <= LimbBase
RECURSIVE BDivSmallAt(_, _, _, _)
BDivSmallAt(a, d, i, r) ==
    IF i = 0 THEN [q |-> <<>>, r |-> r]
    ELSE LET cur  == r * LimbBase + a[i]
             rest == BDivSmallAt(a, d, i - 1, cur % d)
         IN  [q |-> rest.q \o <<cur \div d>>, r |-> rest.r]

BDivSmall(a, d) ==
    LET x == BDivSmallAt(a, d, Len(a), 0)
    IN  [q |-> BStrip(x.q), r |-> x.r]

RECURSIVE IntBitLen(_)
IntBitLen(n) == IF n = 0 THEN 0 ELSE 1 + IntBitLen(n \div 2)

\* bits in a limb
LimbBits == IntBitLen(LimbBase - 1)

BBitLen(a) == IF a = <<>> THEN 0 ELSE LimbBits * (Len(a) - 1) + IntBitLen(a[Len(a)])

BShl(a, n) ==
    IF a = <<>> THEN <<>>
    ELSE Zeros(n \div LimbBits) \o BMulSmall(a, 2^(n % LimbBits))

\* floor(a / 2^n)
BShr(a, n) ==
    IF n \div LimbBits >= Len(a) THEN <<>>
    ELSE BDivSmall(SubSeq(a, n \div LimbBits + 1, Len(a)), 2^(n % LimbBits)).q

BIsOdd(a) == a # <<>> /\ a[1] % 2 = 1

(***************************************************************************)
(* Python floats.  A float is [s, m, e]: the value (-1)^s * m * 2^e with   *)
(* m a 53-bit natural (2^52 <= m < 2^53), or FZero.                        *)
(***************************************************************************)
MantBits == 53

FZero == [s |-> 0, m |-> <<>>, e |-> 0]

\* The float nearest to (-1)^s * (n + f) * 2^e, where 0 <= f < 1 and f > 0 iff
\* sticky; ties go to the even mantissa.  With sticky set, n has more than
\* MantBits + 1 bits.
RoundToFloat(s, n, e, sticky) ==
    LET len == BBitLen(n)
    IN  IF n = <<>> THEN FZero
        ELSE IF len <= MantBits
        THEN [s |-> s, m |-> BShl(n, MantBits - len), e |-> e - (MantBits - len)]
        ELSE LET sh   == len - MantBits
                 q    == BShr(n, sh)
                 r    == BSub(n, BShl(q, sh))
                 c    == BCmp(r, BShl(<<1>>, sh - 1))
                 up   == c > 0 \/ (c = 0 /\ (sticky \/ BIsOdd(q)))
                 q2   == IF up THEN BAdd(q, <<1>>) ELSE q
             IN  IF BBitLen(q2) > MantBits
                 THEN [s |-> s, m |-> BShr(q2, 1), e |-> e + sh + 1]
                 ELSE [s |-> s, m |-> q2, e |-> e + sh]

\* float(n) for a Python int n
FOfInt(n) ==
    IF n < 0 THEN RoundToFloat(1, BOfInt(-n), 0, FALSE)
    ELSE RoundToFloat(0, BOfInt(n), 0, FALSE)

\* Extra quotient bits kept by a division before rounding.
GuardBits == 5 * LimbBits

\* n / d for Python ints n >= 0, 0 < d <= LimbBase: true division, correctly rounded
IntTrueDiv(n, d) ==
    LET qr == BDivSmall(BShl(BOfInt(n), GuardBits), d)
    IN  RoundToFloat(0, qr.q, -GuardBits, qr.r # 0)

\* x / d for a float x and a Python int 0 < d <= LimbBase
FDivInt(x, d) ==
    LET qr == BDivSmall(BShl(x.m, GuardBits), d)
    IN  RoundToFloat(x.s, qr.q, x.e - GuardBits, qr.r # 0)

\* x * y
FMul(x, y) ==
    IF x.m = <<>> \/ y.m = <<>> THEN FZero
    ELSE RoundToFloat((x.s + y.s) % 2, BMul(x.m, y.m), x.e + y.e, FALSE)

\* The exact sum of two floats: [s, m, e] with m of any size.
XAdd(x, y) ==
    IF x.m = <<>> THEN y
    ELSE IF y.m = <<>> THEN x
    ELSE LET e  == IF x.e < y.e THEN x.e ELSE y.e
             xm == BShl(x.m, x.e - e)
             ym == BShl(y.m, y.e - e)
             c  == BCmp(xm, ym)
         IN  IF x.s = y.s THEN [s |-> x.s, m |-> BAdd(xm, ym), e |-> e]
             ELSE IF c = 0 THEN FZero
             ELSE IF c > 0 THEN [s |-> x.s, m |-> BSub(xm, ym), e |-> e]
             ELSE [s |-> y.s, m |-> BSub(ym, xm), e |-> e]

\* x + y
FAdd(x, y) ==
    LET r == XAdd(x, y)
    IN  RoundToFloat(r.s, r.m, r.e, FALSE)

\* A variant of the quantize of line 36 under which a tie goes to the even
\* cent (ROUND_HALF_EVEN).
QuantizeCentsHalfEven(x) ==
    LET t == BMulSmall(x.m, 100)
    IN  IF x.e >= 0 THEN [s |-> x.s, c |-> BShl(t, x.e)]
        ELSE LET sh   == -x.e
                 q    == BShr(t, sh)
                 r    == BSub(t, BShl(q, sh))
                 cmp  == BCmp(r, BShl(<<1>>, sh - 1))
                 up   == cmp > 0 \/ (cmp = 0 /\ BIsOdd(q))
             IN  [s |-> x.s, c |-> IF up THEN BAdd(q, <<1>>) ELSE q]

(***************************************************************************)
(* Decimal(amount).quantize(Decimal("0.01"), rounding=ROUND_HALF_UP):      *)
(* Decimal(amount) is the float's exact value; quantize gives a whole      *)
(* number of cents, [s, c] for (-1)^s * c / 100, the nearest one, a tie    *)
(* going away from zero.                                                   *)
(***************************************************************************)
QuantizeCents(x) ==
    LET t == BMulSmall(x.m, 100)
    IN  IF x.e >= 0 THEN [s |-> x.s, c |-> BShl(t, x.e)]
        ELSE LET sh == -x.e
                 q  == BShr(t, sh)
                 r  == BSub(t, BShl(q, sh))
                 up == BCmp(r, BShl(<<1>>, sh - 1)) >= 0
             IN  [s |-> x.s, c |-> IF up THEN BAdd(q, <<1>>) ELSE q]

\* float(d) for a Decimal d of whole cents: the float nearest to c / 100
FloatOfCents(d) ==
    LET qr == BDivSmall(BShl(d.c, GuardBits), 100)
    IN  RoundToFloat(d.s, qr.q, -GuardBits, qr.r # 0)

\* float(Decimal(amount).quantize(Decimal("0.01"), rounding=ROUND_HALF_UP))
RoundFinal(amount) == FloatOfCents(QuantizeCents(amount))

(***************************************************************************)
(* A Python dict is the sequence of its items [k, v] in insertion order,   *)
(* no key twice.                                                           *)
(***************************************************************************)
DictHas(d, k) == \E i \in 1..Len(d) : d[i].k = k

DictGet(d, k) == d[CHOOSE i \in 1..Len(d) : d[i].k = k].v

\* d[k] = v
DictSet(d, k, v) ==
    IF DictHas(d, k)
    THEN [i \in 1..Len(d) |-> IF d[i].k = k THEN [k |-> k, v |-> v] ELSE d[i]]
    ELSE Append(d, [k |-> k, v |-> v])

\* del d[k]
DictDel(d, k) == SelectSeq(d, LAMBDA it : it.k # k)

\* sum(d.values()): Python's sum starts from the int 0 and adds left to right
RECURSIVE SumValuesTo(_, _)
SumValuesTo(d, n) == IF n = 0 THEN FZero ELSE FAdd(SumValuesTo(d, n - 1), d[n].v)

SumValues(d) == SumValuesTo(d, Len(d))

(***************************************************************************)
(* even_split_expenses(total_airbnb_cost, participants_info,               *)
(* additional_expenses).  participants_info is a sequence of               *)
(* [name, nights_stayed].  A division yields [ok, v]: ok is FALSE where    *)
(* Python raises ZeroDivisionError.                                        *)
(***************************************************************************)
PyDiv(x, d) ==
    IF d = 0 THEN [ok |-> FALSE, v |-> FZero] ELSE [ok |-> TRUE, v |-> FDivInt(x, d)]

Value(x) == [ok |-> TRUE, v |-> x]

\* A variant of total_night_units: the number of participants who stayed.
StayersCounted(ps) == Cardinality({i \in 1..Len(ps) : ps[i].nights_stayed > 0})

\* sum(p['nights_stayed'] for p in participants_info if p['nights_stayed'] > 0)
RECURSIVE NightUnitsTo(_, _)
NightUnitsTo(ps, n) ==
    IF n = 0 THEN 0
    ELSE NightUnitsTo(ps, n - 1)
         + (IF ps[n].nights_stayed > 0 THEN ps[n].nights_stayed ELSE 0)

TotalNightUnits(ps) == NightUnitsTo(ps, Len(ps))

\* A variant of cost_share without the fallback: nobody stayed, nobody is
\* charged.
CostShareNoFallback(total_cost, count, total_night_units, nights) ==
    IF total_night_units = 0 THEN Value(FZero)
    ELSE Value(FMul(total_cost, IntTrueDiv(nights, total_night_units)))

\* A variant of cost_share that ignores the nights: an even split.
CostShareEven(total_cost, count, total_night_units, nights) ==
    IF count > 0 THEN PyDiv(total_cost, count) ELSE Value(FZero)

\* The body of the first loop for one participant: cost_share.
CostShare(total_cost, count, total_night_units, nights) ==
    IF total_night_units = 0
    THEN (IF count > 0 THEN PyDiv(total_cost, count) ELSE Value(FZero))
    ELSE Value(FMul(total_cost, IntTrueDiv(nights, total_night_units)))

\* A variant of per_person_additional: the whole of the expenses for everybody.
AdditionalUndivided(total_shared_expenses, count) == Value(total_shared_expenses)

\* A variant of per_person_additional without the guard of line 28.
AdditionalUnguarded(total_shared_expenses, count) == PyDiv(total_shared_expenses, count)

\* per_person_additional
PerPersonAdditional(total_shared_expenses, count) ==
    IF count > 0 THEN PyDiv(total_shared_expenses, count) ELSE Value(FZero)

\* cost_share of participants 1..n, in list order
RECURSIVE CostSharesTo(_, _, _, _)
CostSharesTo(total_cost, ps, total_night_units, n) ==
    IF n = 0 THEN <<>>
    ELSE Append(CostSharesTo(total_cost, ps, total_night_units, n - 1),
                CostShare(total_cost, Len(ps), total_night_units, ps[n].nights_stayed))

CostShares(total_cost, ps) == CostSharesTo(total_cost, ps, TotalNightUnits(ps), Len(ps))

\* shares after the first loop has run over participants 1..n:
\* shares[participant['name']] = cost_share
RECURSIVE SharesAssigned(_, _, _)
SharesAssigned(ps, cost_shares, n) ==
    IF n = 0 THEN <<>>
    ELSE DictSet(SharesAssigned(ps, cost_shares, n - 1), ps[n].name, cost_shares[n].v)

\* shares after the second loop has run over participants 1..n:
\* shares[participant['name']] += per_person_additional
RECURSIVE SharesAdded(_, _, _, _)
SharesAdded(shares, ps, per_person, n) ==
    IF n = 0 THEN shares
    ELSE LET before == SharesAdded(shares, ps, per_person, n - 1)
         IN  DictSet(before, ps[n].name,
                     FAdd(DictGet(before, ps[n].name), per_person))

\* the last loop, over items 1..n: every amount rounded to cents
RECURSIVE SharesRoundedTo(_, _)
SharesRoundedTo(shares, n) ==
    IF n = 0 THEN <<>>
    ELSE Append(SharesRoundedTo(shares, n - 1),
                [k |-> shares[n].k, v |-> RoundFinal(shares[n].v)])

SharesRounded(shares) == SharesRoundedTo(shares, Len(shares))

\* Lines 17-38 from the cost shares and the additional share on: [raised,
\* shares], the exception raised ("none" when the call returns) and the dict
\* returned.
SplitFrom(ps, cost_shares, per_person) ==
    IF (\E i \in 1..Len(ps) : ~cost_shares[i].ok) \/ ~per_person.ok
    THEN [raised |-> "ZeroDivisionError", shares |-> <<>>]
    ELSE [raised |-> "none",
          shares |-> SharesRounded(
                         SharesAdded(SharesAssigned(ps, cost_shares, Len(ps)),
                                     ps, per_person.v, Len(ps)))]

even_split_expenses(total_cost, ps, ex) ==
    SplitFrom(ps, CostShares(total_cost, ps),
              PerPersonAdditional(SumValues(ex), Len(ps)))

(***************************************************************************)
(* main(), lines 211-239: the breakdown rows built on Compute Splits, from *)
(* the same expressions as lines 15-29.  [raised, rows]                    *)
(***************************************************************************)
BreakdownRow(p, base_cost_share, per_person_additional) ==
    [Participant         |-> p.name,
     NightsStayed        |-> p.nights_stayed,
     AccommodationShare  |-> base_cost_share,
     AdditionalShare     |-> per_person_additional,
     TotalOwed           |-> RoundFinal(FAdd(base_cost_share, per_person_additional))]

RECURSIVE RowsTo(_, _, _, _)
RowsTo(ps, cost_shares, per_person, n) ==
    IF n = 0 THEN <<>>
    ELSE Append(RowsTo(ps, cost_shares, per_person, n - 1),
                BreakdownRow(ps[n], cost_shares[n].v, per_person.v))

RowsFrom(ps, cost_shares, per_person) ==
    IF (\E i \in 1..Len(ps) : ~cost_shares[i].ok) \/ ~per_person.ok
    THEN [raised |-> "ZeroDivisionError", rows |-> <<>>]
    ELSE [raised |-> "none", rows |-> RowsTo(ps, cost_shares, per_person, Len(ps))]

BreakdownRows(total_cost, ps, ex) ==
    RowsFrom(ps, CostShares(total_cost, ps),
             PerPersonAdditional(SumValues(ex), Len(ps)))

(***************************************************************************)
(* The state of one session: st.session_state["participants"] and          *)
(* ["extra_expenses"], the value of the total-cost number input, the       *)
(* expense-name inputs that hold a text other than their expense's name    *)
(* (renaming, a dict from the expense to the text), and what the last      *)
(* script run left: whether it took the Compute Splits branch, the dict    *)
(* even_split_expenses returned, the breakdown rows, and the exception     *)
(* that ended the run ("none" when it ran to its end).  calls holds the    *)
(* frames of the invocations of even_split_expenses that run step by step. *)
(***************************************************************************)
VARIABLES total_cost, participants, extra_expenses, renaming,
          computed, split_result, breakdown_rows, raised, calls

vars == <<total_cost, participants, extra_expenses, renaming,
          computed, split_result, breakdown_rows, raised, calls>>

\* The float a number input holds for an amount of n cents typed as a decimal:
\* the float nearest to n / 100.
Money(n) ==
    IF n < 0 THEN FloatOfCents([s |-> 1, c |-> BOfInt(-n)])
    ELSE FloatOfCents([s |-> 0, c |-> BOfInt(n)])

\* f"Person{n}"
PersonNames == <<"Person1", "Person2", "Person3", "Person4", "Person5", "Person6">>

\* f"Expense{n}"
ExpenseNames == <<"Expense1", "Expense2", "Expense3", "Expense4", "Expense5">>

\* lines 125-128
DefaultParticipants ==
    << [name |-> "Person1", nights_stayed |-> 2],
       [name |-> "Person2", nights_stayed |-> 2] >>

\* line 166
DefaultExpenses == << [k |-> "Groceries", v |-> Money(10000)] >>

(***************************************************************************)
(* One script run is main() from top to bottom.  What starts it is one     *)
(* widget event: kind says which widget, at the participant's index, key   *)
(* the expense, and text / number / amount the value entered.  Every other *)
(* widget returns the value it was drawn with.                             *)
(***************************************************************************)
Event(kind, at, key, text, number, amount) ==
    [kind |-> kind, at |-> at, key |-> key, text |-> text, number |-> number,
     amount |-> amount]

Click(kind) == Event(kind, 0, "", "", 0, FZero)

\* lines 132-161: the name and nights inputs written back, the removals, and
\* Add Participant
ParticipantsSection(ps, ev) ==
    LET edited == [i \in 1..Len(ps) |->
                     [name |-> IF ev.kind = "name" /\ ev.at = i
                               THEN ev.text ELSE ps[i].name,
                      nights_stayed |-> IF ev.kind = "nights" /\ ev.at = i
                                        THEN ev.number ELSE ps[i].nights_stayed]]
        kept   == IF ev.kind = "remove_participant"
                  THEN [i \in 1..(Len(ps) - 1) |->
                          IF i < ev.at THEN edited[i] ELSE edited[i + 1]]
                  ELSE edited
    IN  IF ev.kind = "add_participant"
        THEN Append(kept, [name |-> PersonNames[Len(kept) + 1], nights_stayed |-> 1])
        ELSE kept

\* line 174: the text of the name input of expense exp
NameInput(exp, ev, pending) ==
    IF ev.kind = "expense_name" /\ ev.key = exp THEN ev.text
    ELSE IF DictHas(pending, exp) THEN DictGet(pending, exp)
    ELSE exp

\* line 176: the value of the amount input of expense exp
AmountInput(exp, amt, ev) ==
    IF ev.kind = "expense_amount" /\ ev.key = exp THEN ev.amount ELSE amt

(***************************************************************************)
(* Lines 171-186 after n iterations over the items of ex.  The dict        *)
(* iterator raises RuntimeError when it is asked for the next item after   *)
(* the dict has changed size, which line 183 does when it stores under a   *)
(* name the dict does not hold yet.                                        *)
(***************************************************************************)
RECURSIVE ExpenseLoop(_, _, _, _)
ExpenseLoop(ex, ev, pending, n) ==
    IF n = 0
    THEN [raised |-> "none", ex |-> ex, to_remove |-> <<>>, renaming |-> <<>>]
    ELSE LET before == ExpenseLoop(ex, ev, pending, n - 1)
         IN  IF before.raised # "none" THEN before
             ELSE IF Len(before.ex) # Len(ex)
             THEN [before EXCEPT !.raised = "RuntimeError"]
             ELSE LET exp          == before.ex[n].k
                      amt          == before.ex[n].v
                      new_exp_name == NameInput(exp, ev, pending)
                      new_amt      == AmountInput(exp, amt, ev)
                      flagged      == IF ev.kind = "remove_expense" /\ ev.key = exp
                                      THEN Append(before.to_remove, exp)
                                      ELSE before.to_remove
                  IN  IF new_exp_name # exp
                      THEN [raised    |-> "none",
                            ex        |-> DictSet(before.ex, new_exp_name, new_amt),
                            to_remove |-> Append(flagged, exp),
                            renaming  |-> Append(before.renaming,
                                                 [k |-> exp, v |-> new_exp_name])]
                      ELSE [raised    |-> "none",
                            ex        |-> DictSet(before.ex, exp, new_amt),
                            to_remove |-> flagged,
                            renaming  |-> before.renaming]

\* lines 188-190
RECURSIVE RemoveAll(_, _, _)
RemoveAll(ex, to_remove, n) ==
    IF n = 0 THEN ex ELSE DictDel(RemoveAll(ex, to_remove, n - 1), to_remove[n])

\* lines 170-193: [raised, ex, renaming]
ExpenseSection(ex, ev, pending) ==
    LET done == ExpenseLoop(ex, ev, pending, Len(ex))
    IN  IF done.raised # "none" \/ Len(done.ex) # Len(ex)
        THEN [raised |-> "RuntimeError", ex |-> done.ex, renaming |-> done.renaming]
        ELSE LET kept == RemoveAll(done.ex, done.to_remove, Len(done.to_remove))
             IN  [raised   |-> "none",
                  ex       |-> IF ev.kind = "add_expense"
                               THEN DictSet(kept, ExpenseNames[Len(kept) + 1], FZero)
                               ELSE kept,
                  renaming |-> <<>>]

(***************************************************************************)
(* Compute Splits, lines 198-264: the call of even_split_expenses and the  *)
(* rows.  Lines 211-227 evaluate anew the expressions of lines 15-29 on    *)
(* the same values; they are evaluated once for both here.                 *)
(* pd.DataFrame(breakdown_rows) of no rows has no columns, and line 245    *)
(* then raises KeyError.                                                   *)
(***************************************************************************)
ComputeRun(cost, ps, ex) ==
    LET cost_shares == CostShares(cost, ps)
        per_person  == PerPersonAdditional(SumValues(ex), Len(ps))
        result      == SplitFrom(ps, cost_shares, per_person)
        built       == RowsFrom(ps, cost_shares, per_person)
    IN  [split_result   |-> result.shares,
         breakdown_rows |-> IF result.raised = "none" THEN built.rows ELSE <<>>,
         raised         |-> IF result.raised # "none" THEN result.raised
                            ELSE IF built.raised # "none" THEN built.raised
                            ELSE IF built.rows = <<>> THEN "KeyError"
                            ELSE "none"]

NoRun == [split_result |-> <<>>, breakdown_rows |-> <<>>, raised |-> "none"]

\* lines 115-193 of a run on the event ev: what the sections before Compute
\* Splits leave
Sections(ev) ==
    LET section == ExpenseSection(extra_expenses, ev, renaming)
    IN  [cost     |-> IF ev.kind = "total_cost" THEN ev.amount ELSE total_cost,
         ps       |-> ParticipantsSection(participants, ev),
         ex       |-> section.ex,
         renaming |-> section.renaming,
         raised   |-> section.raised]

\* the state a run leaves: the sections' session state and the run's results
Leaves(sec, run, compute) ==
    /\ total_cost' = sec.cost
    /\ participants' = sec.ps
    /\ extra_expenses' = sec.ex
    /\ renaming' = sec.renaming
    /\ computed' = compute
    /\ split_result' = run.split_result
    /\ breakdown_rows' = run.breakdown_rows
    /\ raised' = run.raised
    /\ UNCHANGED calls

\* main() run on an event ev other than Compute Splits
ScriptRun(ev) ==
    \E sec \in {Sections(ev)} :
        Leaves(sec, [NoRun EXCEPT !.raised = sec.raised], FALSE)

\* main() run on Compute Splits
ComputeSplits ==
    \E sec \in {Sections(Click("compute"))} :
        \E run \in {IF sec.raised # "none"
                    THEN [NoRun EXCEPT !.raised = sec.raised]
                    ELSE ComputeRun(sec.cost, sec.ps, sec.ex)} :
            Leaves(sec, run, sec.raised = "none")

(***************************************************************************)
(* even_split_expenses run step by step, lines 15-38.  A frame holds one   *)
(* invocation's arguments and locals; given is what the caller passed, pc  *)
(* the loop the invocation is in, i the index of the item its loop is at.  *)
(* Invocations of several sessions run in threads of one process and       *)
(* interleave between any two steps.                                       *)
(***************************************************************************)
MaxCalls == 2

Idle ==
    [pc |-> "idle", given |-> [cost |-> FZero, ps |-> <<>>, ex |-> <<>>],
     total_airbnb_cost |-> FZero, participants_info |-> <<>>,
     additional_expenses |-> <<>>, shares |-> <<>>, total_night_units |-> 0,
     per_person_additional |-> FZero, i |-> 0, result |-> <<>>]

\* A variant of line 17: the dict is the one the next frame holds, as a
\* module-level dict or a mutable default argument would be.
LeftoverShares(frames, c) == frames[(c % MaxCalls) + 1].shares

\* line 17: shares = {}
NewShares(frames, c) == <<>>

\* the arguments of the invocations
CallArguments ==
    { [cost |-> Money(30000), ps |-> DefaultParticipants, ex |-> DefaultExpenses],
      [cost |-> Money(2469),
       ps   |-> << [name |-> "Ana", nights_stayed |-> 1],
                   [name |-> "Ana", nights_stayed |-> 0] >>,
       ex   |-> << [k |-> "Fuel", v |-> Money(20)], [k |-> "Refund", v |-> Money(-5)] >>],
      [cost |-> Money(10000), ps |-> <<>>, ex |-> DefaultExpenses] }

SessionUnchanged ==
    UNCHANGED <<total_cost, participants, extra_expenses, renaming,
                computed, split_result, breakdown_rows, raised>>

\* lines 5-17: the call binds the arguments; total_night_units and shares
Call(c) ==
    /\ calls[c].pc = "idle"
    /\ \E a \in CallArguments :
           calls' = [calls EXCEPT ![c] =
               [pc |-> "first_loop",
                given |-> a,
                total_airbnb_cost |-> a.cost,
                participants_info |-> a.ps,
                additional_expenses |-> a.ex,
                shares |-> NewShares(calls, c),
                total_night_units |-> TotalNightUnits(a.ps),
                per_person_additional |-> FZero,
                i |-> 1,
                result |-> <<>>]]
    /\ SessionUnchanged

\* lines 18-23, one iteration: shares[participant['name']] = cost_share
FirstLoopStep(c) ==
    LET f == calls[c]
        p == f.participants_info[f.i]
    IN  /\ f.pc = "first_loop"
        /\ f.i <= Len(f.participants_info)
        /\ calls' = [calls EXCEPT ![c] =
               [f EXCEPT !.shares = DictSet(f.shares, p.name,
                                       CostShare(f.total_airbnb_cost,
                                                 Len(f.participants_info),
                                                 f.total_night_units,
                                                 p.nights_stayed).v),
                         !.i = f.i + 1]]
        /\ SessionUnchanged

\* lines 25-29, once the first loop has ended
SharedExpenses(c) ==
    LET f == calls[c]
    IN  /\ f.pc = "first_loop"
        /\ f.i > Len(f.participants_info)
        /\ calls' = [calls EXCEPT ![c] =
               [f EXCEPT !.per_person_additional =
                             PerPersonAdditional(SumValues(f.additional_expenses),
                                                 Len(f.participants_info)).v,
                         !.pc = "second_loop",
                         !.i = 1]]
        /\ SessionUnchanged

\* lines 31-32, one iteration: shares[participant['name']] += per_person_additional
SecondLoopStep(c) ==
    LET f == calls[c]
        p == f.participants_info[f.i]
    IN  /\ f.pc = "second_loop"
        /\ f.i <= Len(f.participants_info)
        /\ calls' = [calls EXCEPT ![c] =
               [f EXCEPT !.shares = DictSet(f.shares, p.name,
                                       FAdd(DictGet(f.shares, p.name),
                                            f.per_person_additional)),
                         !.i = f.i + 1]]
        /\ SessionUnchanged

\* line 35, once the second loop has ended: the iterator over shares.items()
StartRounding(c) ==
    LET f == calls[c]
    IN  /\ f.pc = "second_loop"
        /\ f.i > Len(f.participants_info)
        /\ calls' = [calls EXCEPT ![c] = [f EXCEPT !.pc = "rounding", !.i = 1]]
        /\ SessionUnchanged

\* lines 35-36, one iteration: shares[name] = the amount rounded to cents
RoundingStep(c) ==
    LET f == calls[c]
    IN  /\ f.pc = "rounding"
        /\ f.i <= Len(f.shares)
        /\ calls' = [calls EXCEPT ![c] =
               [f EXCEPT !.shares = DictSet(f.shares, f.shares[f.i].k,
                                            RoundFinal(f.shares[f.i].v)),
                         !.i = f.i + 1]]
        /\ SessionUnchanged

\* line 38: return shares
Return(c) ==
    LET f == calls[c]
    IN  /\ f.pc = "rounding"
        /\ f.i > Len(f.shares)
        /\ calls' = [calls EXCEPT ![c] = [f EXCEPT !.pc = "returned", !.result = f.shares]]
        /\ SessionUnchanged

\* the caller has taken the result; the frame and its locals are gone
Finish(c) ==
    /\ calls[c].pc = "returned"
    /\ calls' = [calls EXCEPT ![c] = Idle]
    /\ SessionUnchanged

InitCalls ==
    /\ total_cost = FZero
    /\ participants = DefaultParticipants
    /\ extra_expenses = DefaultExpenses
    /\ renaming = <<>>
    /\ computed = FALSE
    /\ split_result = <<>>
    /\ breakdown_rows = <<>>
    /\ raised = "none"
    /\ calls = [c \in 1..MaxCalls |-> Idle]

NextCalls ==
    \E c \in 1..MaxCalls :
        \/ Call(c)
        \/ FirstLoopStep(c)
        \/ SharedExpenses(c)
        \/ SecondLoopStep(c)
        \/ StartRounding(c)
        \/ RoundingStep(c)
        \/ Return(c)
        \/ Finish(c)

SpecCalls == InitCalls /\ [][NextCalls]_vars

(***************************************************************************)
(* The function on its own: the arguments are drawn from bounded sets and  *)
(* Compute Splits applies it.                                              *)
(***************************************************************************)
MaxParticipants == 3

NightsChoices == {0, 1, 2, 3}

CostChoices ==
    {Money(1), Money(2469), Money(6172), Money(10000), Money(30000)}

ExpenseChoices ==
    { <<>>,
      <<[k |-> "Groceries", v |-> Money(10000)]>>,
      <<[k |-> "Food", v |-> Money(2000)]>>,
      <<[k |-> "Groceries", v |-> Money(10)], [k |-> "Fuel", v |-> Money(20)],
        [k |-> "Refund", v |-> Money(-5)]>> }

\* The names of n participants: the labels Add Participant gives the entries
\* of a fresh list, or the same with the last entry carrying the first one's.
NameRows(n) ==
    { [i \in 1..n |-> PersonNames[i]] }
    \cup (IF n >= 2
          THEN { [i \in 1..n |-> IF i = n THEN PersonNames[1] ELSE PersonNames[i]] }
          ELSE {})

ParticipantLists ==
    UNION { { [i \in 1..n |-> [name |-> nm[i], nights_stayed |-> nt[i]]] :
                nm \in NameRows(n), nt \in [1..n -> NightsChoices] } :
            n \in 0..MaxParticipants }

Init ==
    /\ total_cost \in CostChoices
    /\ participants \in ParticipantLists
    /\ extra_expenses \in ExpenseChoices
    /\ renaming = <<>>
    /\ computed = FALSE
    /\ split_result = <<>>
    /\ breakdown_rows = <<>>
    /\ raised = "none"
    /\ calls = [c \in 1..MaxCalls |-> Idle]

Next == ~computed /\ ComputeSplits

Spec == Init /\ [][Next]_vars

(***************************************************************************)
(* The session: it starts from the state the first script run leaves, and  *)
(* every step is one script run on one widget event.  The values entered   *)
(* are drawn from small sets.                                              *)
(***************************************************************************)
MaxUIParticipants == 2

MaxUIExpenses == 2

CostInputs == {FZero, Money(30000)}

NameInputs == {"Ana"}

NightsInputs == {0}

AmountInputs == {Money(2000)}

ExpenseNameInputs == {"Food"}

\* lines 109-111: session_state.clear() and the rerun, which sets the defaults
\* again.  The total-cost input has no key: clear() removes the keyed entries,
\* and whether the value of an unkeyed widget outlives it is Streamlit's choice.
ResetAllData ==
    /\ total_cost' \in {total_cost, FZero}
    /\ participants' = DefaultParticipants
    /\ extra_expenses' = DefaultExpenses
    /\ renaming' = <<>>
    /\ computed' = FALSE
    /\ split_result' = <<>>
    /\ breakdown_rows' = <<>>
    /\ raised' = "none"
    /\ UNCHANGED calls

SetTotalCost ==
    \E v \in CostInputs :
        /\ v # total_cost
        /\ ScriptRun(Event("total_cost", 0, "", "", 0, v))

SetName ==
    \E i \in 1..Len(participants), v \in NameInputs :
        /\ v # participants[i].name
        /\ ScriptRun(Event("name", i, "", v, 0, FZero))

SetNights ==
    \E i \in 1..Len(participants), v \in NightsInputs :
        /\ v # participants[i].nights_stayed
        /\ ScriptRun(Event("nights", i, "", "", v, FZero))

RemoveParticipant ==
    \E i \in 1..Len(participants) :
        ScriptRun(Event("remove_participant", i, "", "", 0, FZero))

AddParticipant ==
    /\ Len(participants) < MaxUIParticipants
    /\ ScriptRun(Click("add_participant"))

SetExpenseName ==
    \E i \in 1..Len(extra_expenses), v \in ExpenseNameInputs :
        /\ v # NameInput(extra_expenses[i].k, Click("none"), renaming)
        /\ ScriptRun(Event("expense_name", 0, extra_expenses[i].k, v, 0, FZero))

SetExpenseAmount ==
    \E i \in 1..Len(extra_expenses), v \in AmountInputs :
        /\ v # extra_expenses[i].v
        /\ ScriptRun(Event("expense_amount", 0, extra_expenses[i].k, "", 0, v))

RemoveExpense ==
    \E i \in 1..Len(extra_expenses) :
        ScriptRun(Event("remove_expense", 0, extra_expenses[i].k, "", 0, FZero))

AddNewExpense ==
    /\ Len(extra_expenses) < MaxUIExpenses
    /\ ScriptRun(Click("add_expense"))

InitUI ==
    /\ total_cost = FZero
    /\ participants = DefaultParticipants
    /\ extra_expenses = DefaultExpenses
    /\ renaming = <<>>
    /\ computed = FALSE
    /\ split_result = <<>>
    /\ breakdown_rows = <<>>
    /\ raised = "none"
    /\ calls = [c \in 1..MaxCalls |-> Idle]

\* every event but the edit of a participant's name
NextNoRename ==
    \/ ResetAllData
    \/ SetTotalCost
    \/ SetNights
    \/ RemoveParticipant
    \/ AddParticipant
    \/ SetExpenseName
    \/ SetExpenseAmount
    \/ RemoveExpense
    \/ AddNewExpense
    \/ ComputeSplits

NextUI == NextNoRename \/ SetName

SpecUI == InitUI /\ [][NextUI]_vars

SpecNoRename == InitUI /\ [][NextNoRename]_vars

(***************************************************************************)
(* Exact arithmetic on float values, for stating the claims: [s, m, e]     *)
(* with m a natural of any size.                                           *)
(***************************************************************************)
XNeg(x) == IF x.m = <<>> THEN x ELSE [x EXCEPT !.s = 1 - x.s]

XAbs(x) == [x EXCEPT !.s = 0]

XSub(x, y) == XAdd(x, XNeg(y))

\* x * n for a natural n <= LimbBase
XMulInt(x, n) == IF n = 0 \/ x.m = <<>> THEN FZero ELSE [x EXCEPT !.m = BMulSmall(x.m, n)]

\* x * 2^k
XMulPow2(x, k) == IF x.m = <<>> THEN x ELSE [x EXCEPT !.e = x.e + k]

XOfNat(b) == [s |-> 0, m |-> b, e |-> 0]

XSign(x) == IF x.m = <<>> THEN 0 ELSE IF x.s = 1 THEN -1 ELSE 1

XLeq(x, y) == XSign(XSub(x, y)) <= 0

XLess(x, y) == XSign(XSub(x, y)) < 0

XEq(x, y) == XSign(XSub(x, y)) = 0

Names(ps) == [i \in 1..Len(ps) |-> ps[i].name]

Distinct(seq) == \A i, j \in 1..Len(seq) : i # j => seq[i] # seq[j]

\* The call returned and the rows were built.
Returned == computed /\ raised = "none"

RECURSIVE XSumTo(_, _)
XSumTo(f, n) == IF n = 0 THEN FZero ELSE XAdd(XSumTo(f, n - 1), f[n])

\* The exact sum of the floats f[1], ..., f[Len(f)].
XSum(f) == XSumTo(f, Len(f))

AccommodationShares == [i \in 1..Len(breakdown_rows) |-> breakdown_rows[i].AccommodationShare]

AdditionalShares == [i \in 1..Len(breakdown_rows) |-> breakdown_rows[i].AdditionalShare]

ExpenseValues == [i \in 1..Len(extra_expenses) |-> extra_expenses[i].v]

ExpenseMagnitudes == [i \in 1..Len(extra_expenses) |-> XAbs(extra_expenses[i].v)]

\* C1 as stated: with a non-empty list and totalNightUnits > 0, the
\* accommodation shares add up to exactly totalCost (already false on lists of
\* distinct names).
C1_SharesSumToTotalCost ==
    (Returned /\ Distinct(Names(participants)) /\ TotalNightUnits(participants) > 0)
        => XEq(XSum(AccommodationShares), total_cost)

\* C1 amended: with a non-empty list and totalNightUnits > 0, the accommodation
\* shares add up to totalCost up to the rounding of the two float operations
\* behind each share: the exact sum is within totalCost * 2^-51 of totalCost.
C1_SharesSumWithinRounding ==
    (Returned /\ TotalNightUnits(participants) > 0)
        => XLeq(XMulPow2(XAbs(XSub(XSum(AccommodationShares), total_cost)), 51),
                total_cost)

\* Three participants, one night each, and shares that do not add up exactly.
C1_Witness ==
    /\ Returned
    /\ Distinct(Names(participants))
    /\ Len(participants) = 3
    /\ \A i \in 1..3 : participants[i].nights_stayed = 1
    /\ ~XEq(XSum(AccommodationShares), total_cost)

\* C2 as stated: with a non-empty list every participant has the same
\* additionalShare, and the additional shares add up to exactly the sum of the
\* expense amounts (already false on lists of distinct names).
C2_AdditionalSumsToExpenses ==
    (Returned /\ Distinct(Names(participants)))
        => /\ \A i \in 1..Len(breakdown_rows) :
                breakdown_rows[i].AdditionalShare = breakdown_rows[1].AdditionalShare
           /\ XEq(XSum(AdditionalShares), XSum(ExpenseValues))

\* C2 amended: with a non-empty list every participant has the same
\* additionalShare whatever the nights stayed, and the additional shares add up
\* to the sum of the expense amounts, negative ones included, up to float
\* rounding: the exact sums differ by at most k * 2^-52 times the sum of the
\* amounts' magnitudes, k the number of expenses.
C2_AdditionalEvenWithinRounding ==
    Returned
        => /\ Len(breakdown_rows) = Len(participants)
           /\ \A i \in 1..Len(breakdown_rows) :
                breakdown_rows[i].AdditionalShare = breakdown_rows[1].AdditionalShare
           /\ XLeq(XMulPow2(XAbs(XSub(XSum(AdditionalShares), XSum(ExpenseValues))), 52),
                   XMulInt(XSum(ExpenseMagnitudes), Len(extra_expenses)))

\* Participants with different nights, a negative expense among the expenses,
\* and additional shares that do not add up exactly.
C2_Witness ==
    /\ Returned
    /\ Distinct(Names(participants))
    /\ \E i, j \in 1..Len(participants) :
          participants[i].nights_stayed # participants[j].nights_stayed
    /\ \E i \in 1..Len(extra_expenses) : extra_expenses[i].v.s = 1
    /\ ~XEq(XSum(AdditionalShares), XSum(ExpenseValues))

\* The whole number of cents nearest to |f| * 100, for a float f.
NearestCents(f) ==
    LET t == BMulSmall(f.m, 100)
    IN  IF f.e >= 0 THEN BShl(t, f.e)
        ELSE BShr(BAdd(t, BShl(<<1>>, -f.e - 1)), -f.e)

\* c cents is |raw| rounded half up: c - 1/2 <= |raw| * 100 < c + 1/2.
IsHalfUpCents(raw, c) ==
    /\ XLess(XMulInt(XAbs(raw), 200), XOfNat(BAdd(BMulSmall(c, 2), <<1>>)))
    /\ c = <<>> \/ XLeq(XOfNat(BSub(BMulSmall(c, 2), <<1>>)), XMulInt(XAbs(raw), 200))

\* owed is raw rounded once to whole cents, half up, as a float.
IsRoundedOnce(raw, owed) ==
    LET c == NearestCents(owed)
    IN  /\ IsHalfUpCents(raw, c)
        /\ owed = FloatOfCents([s |-> raw.s, c |-> c])

\* raw * 1000 is a whole number ending in 5: raw is exactly X.XX5.
IsExactMidpoint(raw) ==
    /\ raw.m # <<>>
    /\ raw.e < 0
    /\ LET t == BMulSmall(BMulSmall(raw.m, 100), 10)
       IN  /\ BShl(BShr(t, -raw.e), -raw.e) = t
           /\ BDivSmall(BShr(t, -raw.e), 10).r = 5

C4_EmptyListNoDivision ==
    (computed /\ participants = <<>>)
        => /\ split_result = <<>>
           /\ breakdown_rows = <<>>
           /\ raised # "ZeroDivisionError"

\* The call made with no participant, a total cost and expenses to share.
C4_Witness ==
    /\ computed
    /\ participants = <<>>
    /\ extra_expenses # <<>>
    /\ total_cost = Money(30000)

NightsOf(ps) == [i \in 1..Len(ps) |-> ps[i].nights_stayed]

\* C5: when every participant of a non-empty list stayed 0 nights, each
\* Accommodation Share is total_cost / count, not zero, and each Total Owed is
\* that plus the expenses' total / count, rounded to cents; 100 over two such
\* participants with Food 20 gives shares of 50 and 10 and 60.00 owed.
C5_AllZeroNightsEqualSplit ==
    (Returned /\ \A i \in 1..Len(participants) : participants[i].nights_stayed = 0)
        => /\ \A i \in 1..Len(breakdown_rows) :
                LET row == breakdown_rows[i]
                    per == FDivInt(SumValues(extra_expenses), Len(participants))
                IN  /\ row.AccommodationShare = FDivInt(total_cost, Len(participants))
                    /\ row.AccommodationShare # FZero
                    /\ row.TotalOwed = RoundFinal(FAdd(FDivInt(total_cost, Len(participants)), per))
                    /\ Distinct(Names(participants)) =>
                          DictGet(split_result, row.Participant) = row.TotalOwed
           /\ ( /\ total_cost = FOfInt(100)
                /\ Len(participants) = 2
                /\ extra_expenses = <<[k |-> "Food", v |-> FOfInt(20)]>> )
              => \A i \in 1..2 :
                    /\ breakdown_rows[i].AccommodationShare = FOfInt(50)
                    /\ breakdown_rows[i].AdditionalShare = FOfInt(10)
                    /\ breakdown_rows[i].TotalOwed = FOfInt(60)

\* Scenario 3: 100 over two participants of 0 nights, Food 20.
C5_Witness ==
    /\ Returned
    /\ total_cost = FOfInt(100)
    /\ NightsOf(participants) = <<0, 0>>
    /\ Distinct(Names(participants))
    /\ extra_expenses = <<[k |-> "Food", v |-> FOfInt(20)]>>
    /\ DictGet(split_result, "Person2") = FOfInt(60)

\* C6 as stated: the call returns one entry per participant, in list order,
\* also when two participants share a name: entry i carries participant i's
\* name and its own accommodation share plus one additional share, rounded.
C6_OneEntryPerParticipant ==
    Returned
        => /\ Len(breakdown_rows) = Len(participants)
           /\ Len(split_result) = Len(participants)
           /\ \A i \in 1..Len(participants) :
                /\ breakdown_rows[i].Participant = participants[i].name
                /\ i <= Len(split_result) =>
                      /\ split_result[i].k = participants[i].name
                      /\ split_result[i].v = breakdown_rows[i].TotalOwed

\* C7: when totalNightUnits > 0 each Accommodation Share is
\* total_cost * (nights_stayed / totalNightUnits); a participant of 0 nights
\* has Accommodation Share 0, still has a row and still owes the full even
\* additional share; 300 over stays of 1 and 3 nights with no expenses gives
\* shares of 75 and 225, owed 75.00 and 225.00.
C7_ProRataByNights ==
    (Returned /\ TotalNightUnits(participants) > 0)
        => /\ Len(breakdown_rows) = Len(participants)
           /\ \A i \in 1..Len(breakdown_rows) :
                LET row == breakdown_rows[i]
                    n   == participants[i].nights_stayed
                    per == FDivInt(SumValues(extra_expenses), Len(participants))
                IN  /\ row.AccommodationShare
                         = FMul(total_cost, IntTrueDiv(n, TotalNightUnits(participants)))
                    /\ row.AdditionalShare = per
                    /\ n = 0 => /\ row.AccommodationShare = FZero
                                /\ row.TotalOwed = RoundFinal(per)
                    /\ Distinct(Names(participants)) =>
                          DictGet(split_result, row.Participant) = row.TotalOwed
           /\ ( /\ total_cost = FOfInt(300)
                /\ NightsOf(participants) = <<1, 3>>
                /\ extra_expenses = <<>> )
              => /\ breakdown_rows[1].AccommodationShare = FOfInt(75)
                 /\ breakdown_rows[2].AccommodationShare = FOfInt(225)
                 /\ breakdown_rows[1].TotalOwed = FOfInt(75)
                 /\ breakdown_rows[2].TotalOwed = FOfInt(225)

\* A participant of 0 nights beside one who stayed, with expenses to share:
\* the first owes only the additional share.
C7_Witness ==
    /\ Returned
    /\ Distinct(Names(participants))
    /\ NightsOf(participants) = <<0, 2>>
    /\ extra_expenses = <<[k |-> "Groceries", v |-> FOfInt(100)]>>
    /\ breakdown_rows[1].AccommodationShare = FZero
    /\ breakdown_rows[2].AccommodationShare = total_cost
    /\ breakdown_rows[1].TotalOwed = FOfInt(50)

\* C8: an invocation leaves the participant list and the expense mapping it
\* was given unchanged, an idle frame retains nothing, and every invocation
\* that has returned, whatever other invocations ran between its steps,
\* returned what even_split_expenses gives for its arguments alone; so
\* invocations with the same arguments return the same result.  The default
\* session's arguments with 300 to split give 200.00 to each of the two.
C8_InvocationsPure ==
    \A c \in 1..MaxCalls :
        LET f == calls[c]
        IN  /\ f.pc = "idle" => f = Idle
            /\ f.pc # "idle" =>
                  /\ f.total_airbnb_cost = f.given.cost
                  /\ f.participants_info = f.given.ps
                  /\ f.additional_expenses = f.given.ex
            /\ f.pc = "returned" =>
                  /\ f.result = even_split_expenses(f.given.cost, f.given.ps,
                                                    f.given.ex).shares
                  /\ \A d \in 1..MaxCalls :
                        (calls[d].pc = "returned" /\ calls[d].given = f.given)
                            => calls[d].result = f.result
                  /\ ( /\ f.given.cost = FOfInt(300)
                       /\ f.given.ps = DefaultParticipants
                       /\ f.given.ex = DefaultExpenses )
                     => f.result = << [k |-> "Person1", v |-> FOfInt(200)],
                                      [k |-> "Person2", v |-> FOfInt(200)] >>

\* Two invocations with the same arguments, interleaved: the first has
\* returned a non-empty result while the second is inside its second loop,
\* its shares half updated.
C8_Witness ==
    /\ calls[1].pc = "returned"
    /\ calls[1].result # <<>>
    /\ calls[2].pc = "second_loop"
    /\ calls[2].i = 2
    /\ calls[2].given = calls[1].given

\* C9 as stated: on Compute Splits every row's Total Owed equals the amount
\* even_split_expenses returned under that row's participant name.
C9_TotalOwedMatchesSplit ==
    Returned
        => \A i \in 1..Len(breakdown_rows) :
             /\ DictHas(split_result, breakdown_rows[i].Participant)
             /\ DictGet(split_result, breakdown_rows[i].Participant)
                    = breakdown_rows[i].TotalOwed

\* C10 as stated: from the default list, after any sequence of Add Participant
\* and Remove clicks, with no name edited by hand, the names in the
\* participant list are pairwise distinct.
C10_NamesDistinctWithoutRenaming == Distinct(Names(participants))
====
